---- MODULE Spec2Model ----
(***************************************************************************)
(* The frame-backed memory handler ByFrame<T: FrameAllocator> of           *)
(* crate/memory/src/memory_set/handler/byframe.rs.                         *)
(*                                                                         *)
(* Each address space owns one page table and one ByFrame handler; all     *)
(* handlers hold a handle to the same frame allocator.  Every statement of *)
(* map and unmap is one step, so that the states between the allocator     *)
(* call and the page-table call are states of the model.  A failed         *)
(* `expect` is a kernel panic: nothing runs after it.                      *)
(***************************************************************************)
EXTENDS Naturals, FiniteSets, Sequences

\* ------------------------------------------------------------- bounds
NumFrames == 2
NumPages == 2

Frames == 1..NumFrames
Pages == 1..NumPages
Spaces == {"as1", "as2"}
Flags == {"writable"}
MemoryAttr == SUBSET Flags

NoEntry == [present |-> FALSE]
NoHandler == [kind |-> "none"]
NoOp == [kind |-> "none"]
NoPanic == "none"

VARIABLES
    free,       \* the allocator's pool of free frames
    pt,         \* pt[s][a]: the entry of page a in the page table of s
    handlers,   \* handlers[s]: the ByFrame value bound to s, or NoHandler
    pc,         \* pc[s]: the statement the call in flight in s is at
    op,         \* op[s]: the arguments and locals of that call
    ret,        \* ret[s]: what the last completed call of s returned
    panic,      \* the message of the failed expect, if any
    req,        \* req[s][a]: the attr given to the map call that installed a
    trk         \* observer of one handler's consecutive calls

vars == <<free, pt, handlers, pc, op, ret, panic, req, trk>>

\* ------------------------------------------- the collaborators' interfaces
None == [some |-> FALSE]
Some(v) == [some |-> TRUE, val |-> v]

\* FrameAllocator::alloc: every outcome the allocator may produce, as the
\* returned Option and the pool left behind: None when the pool is empty,
\* otherwise some free frame, which leaves the pool.
alloc(pool) ==
    IF pool = {}
    THEN {[res |-> None, pool |-> pool]}
    ELSE {[res |-> Some(f), pool |-> pool \ {f}] : f \in pool}

\* FrameAllocator::dealloc: the frame is back in the pool.
dealloc(pool, f) == pool \cup {f}

\* The flags of an entry PageTable::map has just installed.
DefaultFlags == {"writable"}

\* PageTable::map(addr, target): the entry of addr, present, pointing to target.
pt_map(table, a, f) ==
    [table EXCEPT ![a] = [present |-> TRUE, target |-> f, flags |-> DefaultFlags]]

\* PageTable::get_entry(addr): the entry, or None.
get_entry(table, a) == IF table[a].present THEN Some(table[a]) ELSE None

\* Entry::target(): the frame the entry points to.
target(entry) == entry.target

\* PageTable::unmap(addr): the entry of addr is gone.
pt_unmap(table, a) == [table EXCEPT ![a] = NoEntry]

\* MemoryAttr::apply(entry): the entry carries the attribute's flags.
apply(attr, table, a) == [table EXCEPT ![a].flags = attr]

\* ------------------------------------------------------------ observer
TrkOff == [phase |-> "off", s |-> "as1", addr |-> 1, free0 |-> {}, empty0 |-> FALSE]

IsEmpty(table) == \A a \in Pages : ~table[a].present

\* The observer follows one handler through map(a) and then either unmap(a)
\* or a map(b) that finds the allocator exhausted, and notes a box_clone;
\* any other step ends it.
Track(ev, s, a) ==
    LET mine == trk.phase # "off" /\ trk.s = s IN
    CASE ev = "map_begin" ->
           IF ~pt[s][a].present /\ free # {}
           THEN [phase |-> "map_a", s |-> s, addr |-> a, free0 |-> free,
                 empty0 |-> IsEmpty(pt[s])]
           ELSE IF mine /\ trk.phase = "mapped_a" /\ a # trk.addr
                   /\ ~pt[s][a].present /\ free = {}
                THEN [trk EXCEPT !.phase = "map_b_exhausted"]
                ELSE TrkOff
      [] ev = "map_step" ->
           IF mine /\ trk.phase = "map_a" THEN trk ELSE TrkOff
      [] ev = "map_end" ->
           IF mine /\ trk.phase = "map_a"
           THEN [trk EXCEPT !.phase = "mapped_a"] ELSE TrkOff
      [] ev = "unmap_begin" ->
           IF mine /\ trk.phase = "mapped_a" /\ a = trk.addr
           THEN [trk EXCEPT !.phase = "unmap_a"] ELSE TrkOff
      [] ev = "unmap_step" ->
           IF mine /\ trk.phase = "unmap_a" THEN trk ELSE TrkOff
      [] ev = "unmap_end" ->
           IF mine /\ trk.phase = "unmap_a"
           THEN [trk EXCEPT !.phase = "round_trip"] ELSE TrkOff
      [] ev = "box_clone" ->
           [phase |-> "cloned", s |-> s, addr |-> a, free0 |-> free,
            empty0 |-> IsEmpty(pt[s])]
      [] OTHER -> TrkOff

\* ---------------------------------------------------------------- Init
\* ByFrame::new(allocator)
new(allocator) == [kind |-> "ByFrame", allocator |-> allocator]

Init ==
    /\ free = Frames
    /\ pt = [s \in Spaces |-> [a \in Pages |-> NoEntry]]
    /\ handlers = [s \in Spaces |-> IF s = "as1" THEN new("FRAME_ALLOCATOR") ELSE NoHandler]
    /\ pc = [s \in Spaces |-> "idle"]
    /\ op = [s \in Spaces |-> NoOp]
    /\ ret = [s \in Spaces |-> "none"]
    /\ panic = NoPanic
    /\ req = [s \in Spaces |-> [a \in Pages |-> {}]]
    /\ trk = TrkOff

Running(s) == panic = NoPanic /\ handlers[s] # NoHandler

\* ----------------------------------------------------------- box_clone
\* #[derive(Clone)]: the clone holds a copy of the allocator handle.
clone(h) == [kind |-> h.kind, allocator |-> h.allocator]

\* box_clone as a deep copy that takes a frame for the new handler
box_clone_takes_frame(s, t) ==
    /\ Running(s)
    /\ handlers[t] = NoHandler
    /\ handlers' = [handlers EXCEPT ![t] = clone(handlers[s])]
    /\ \E r \in alloc(free) : free' = r.pool
    /\ trk' = Track("box_clone", s, 1)
    /\ UNCHANGED <<pt, pc, op, ret, panic, req>>

box_clone(s, t) ==
    /\ Running(s)
    /\ handlers[t] = NoHandler
    /\ handlers' = [handlers EXCEPT ![t] = clone(handlers[s])]
    /\ trk' = Track("box_clone", s, 1)
    /\ UNCHANGED <<free, pt, pc, op, ret, panic, req>>

\* ----------------------------------------------------------------- map
\* map that installs the entry before it has a frame for it
map_alloc_installs_first(s, addr, attr) ==
    /\ Running(s)
    /\ pc[s] = "idle"
    /\ pt' = [pt EXCEPT ![s] = pt_map(pt[s], addr, 0)]
    /\ \E r \in alloc(free) :
         IF r.res.some
         THEN /\ free' = r.pool
              /\ pc' = [pc EXCEPT ![s] = "map_pt_map"]
              /\ op' = [op EXCEPT ![s] = [kind |-> "map", addr |-> addr,
                                          attr |-> attr, target |-> r.res.val,
                                          was_mapped |-> pt[s][addr].present]]
              /\ panic' = panic
         ELSE /\ free' = r.pool
              /\ pc' = [pc EXCEPT ![s] = "panicked"]
              /\ op' = [op EXCEPT ![s] = [kind |-> "map", addr |-> addr,
                                          attr |-> attr, target |-> 0,
                                          was_mapped |-> pt[s][addr].present]]
              /\ panic' = "failed to allocate frame"
    /\ trk' = Track("map_begin", s, addr)
    /\ UNCHANGED <<handlers, ret, req>>

\* let target = self.allocator.alloc().expect("failed to allocate frame");
map_alloc(s, addr, attr) ==
    /\ Running(s)
    /\ pc[s] = "idle"
    /\ \E r \in alloc(free) :
         IF r.res.some
         THEN /\ free' = r.pool
              /\ pc' = [pc EXCEPT ![s] = "map_pt_map"]
              /\ op' = [op EXCEPT ![s] = [kind |-> "map", addr |-> addr,
                                          attr |-> attr, target |-> r.res.val,
                                          was_mapped |-> pt[s][addr].present]]
              /\ panic' = panic
         ELSE /\ free' = r.pool
              /\ pc' = [pc EXCEPT ![s] = "panicked"]
              /\ op' = [op EXCEPT ![s] = [kind |-> "map", addr |-> addr,
                                          attr |-> attr, target |-> 0,
                                          was_mapped |-> pt[s][addr].present]]
              /\ panic' = "failed to allocate frame"
    /\ trk' = Track("map_begin", s, addr)
    /\ UNCHANGED <<pt, handlers, ret, req>>

\* let entry = pt.map(addr, target);
map_pt_map(s) ==
    /\ Running(s)
    /\ pc[s] = "map_pt_map"
    /\ pt' = [pt EXCEPT ![s] = pt_map(pt[s], op[s].addr, op[s].target)]
    /\ req' = [req EXCEPT ![s][op[s].addr] = op[s].attr]
    /\ pc' = [pc EXCEPT ![s] = "map_attr_apply"]
    /\ trk' = Track("map_step", s, op[s].addr)
    /\ UNCHANGED <<free, handlers, op, ret, panic>>

\* attr.apply(entry); and the return
map_attr_apply(s) ==
    /\ Running(s)
    /\ pc[s] = "map_attr_apply"
    /\ pt' = [pt EXCEPT ![s] = apply(op[s].attr, pt[s], op[s].addr)]
    /\ pc' = [pc EXCEPT ![s] = "idle"]
    /\ op' = [op EXCEPT ![s] = NoOp]
    /\ ret' = [ret EXCEPT ![s] = "ok"]
    /\ trk' = Track("map_end", s, op[s].addr)
    /\ UNCHANGED <<free, handlers, panic, req>>

\* --------------------------------------------------------------- unmap
\* unmap that returns the frame a stale entry names before it finds the
\* entry missing
unmap_get_entry_phantom(s, addr) ==
    /\ Running(s)
    /\ pc[s] = "idle"
    /\ LET e == get_entry(pt[s], addr) IN
         IF e.some
         THEN /\ pc' = [pc EXCEPT ![s] = "unmap_dealloc"]
              /\ op' = [op EXCEPT ![s] = [kind |-> "unmap", addr |-> addr,
                                          target |-> target(e.val)]]
              /\ panic' = panic
              /\ free' = free
         ELSE /\ pc' = [pc EXCEPT ![s] = "panicked"]
              /\ op' = [op EXCEPT ![s] = [kind |-> "unmap", addr |-> addr,
                                          target |-> 0]]
              /\ panic' = "fail to get entry"
              /\ \E f \in Frames : free' = dealloc(free, f)
    /\ trk' = Track("unmap_begin", s, addr)
    /\ UNCHANGED <<pt, handlers, ret, req>>

\* let target = pt.get_entry(addr).expect("fail to get entry").target();
unmap_get_entry(s, addr) ==
    /\ Running(s)
    /\ pc[s] = "idle"
    /\ LET e == get_entry(pt[s], addr) IN
         IF e.some
         THEN /\ pc' = [pc EXCEPT ![s] = "unmap_dealloc"]
              /\ op' = [op EXCEPT ![s] = [kind |-> "unmap", addr |-> addr,
                                          target |-> target(e.val)]]
              /\ panic' = panic
         ELSE /\ pc' = [pc EXCEPT ![s] = "panicked"]
              /\ op' = [op EXCEPT ![s] = [kind |-> "unmap", addr |-> addr,
                                          target |-> 0]]
              /\ panic' = "fail to get entry"
    /\ trk' = Track("unmap_begin", s, addr)
    /\ UNCHANGED <<free, pt, handlers, ret, req>>

\* unmap without the dealloc: the frame is never returned
unmap_dealloc_leaks(s) ==
    /\ Running(s)
    /\ pc[s] = "unmap_dealloc"
    /\ free' = free
    /\ pc' = [pc EXCEPT ![s] = "unmap_pt_unmap"]
    /\ trk' = Track("unmap_step", s, op[s].addr)
    /\ UNCHANGED <<pt, handlers, op, ret, panic, req>>

\* unmap that returns the frame of some mapped page of the table, not
\* necessarily that of addr
unmap_dealloc_other(s) ==
    /\ Running(s)
    /\ pc[s] = "unmap_dealloc"
    /\ \E b \in Pages :
         /\ pt[s][b].present
         /\ free' = dealloc(free, target(pt[s][b]))
    /\ pc' = [pc EXCEPT ![s] = "unmap_pt_unmap"]
    /\ trk' = Track("unmap_step", s, op[s].addr)
    /\ UNCHANGED <<pt, handlers, op, ret, panic, req>>

\* unmap that removes the entry where it should return the frame
unmap_dealloc_removes_first(s) ==
    /\ Running(s)
    /\ pc[s] = "unmap_dealloc"
    /\ pt' = [pt EXCEPT ![s] = pt_unmap(pt[s], op[s].addr)]
    /\ pc' = [pc EXCEPT ![s] = "unmap_pt_unmap"]
    /\ trk' = Track("unmap_step", s, op[s].addr)
    /\ UNCHANGED <<free, handlers, op, ret, panic, req>>

\* self.allocator.dealloc(target);
unmap_dealloc(s) ==
    /\ Running(s)
    /\ pc[s] = "unmap_dealloc"
    /\ free' = dealloc(free, op[s].target)
    /\ pc' = [pc EXCEPT ![s] = "unmap_pt_unmap"]
    /\ trk' = Track("unmap_step", s, op[s].addr)
    /\ UNCHANGED <<pt, handlers, op, ret, panic, req>>

\* pt.unmap(addr); and the return
unmap_pt_unmap(s) ==
    /\ Running(s)
    /\ pc[s] = "unmap_pt_unmap"
    /\ pt' = [pt EXCEPT ![s] = pt_unmap(pt[s], op[s].addr)]
    /\ req' = [req EXCEPT ![s][op[s].addr] = {}]
    /\ pc' = [pc EXCEPT ![s] = "idle"]
    /\ op' = [op EXCEPT ![s] = NoOp]
    /\ ret' = [ret EXCEPT ![s] = "ok"]
    /\ trk' = Track("unmap_end", s, op[s].addr)
    /\ UNCHANGED <<free, handlers, panic>>

\* --------------------------------------------------- handle_page_fault
\* handle_page_fault that claims every fault on a mapped page as resolved
handle_page_fault_resolves(table, addr) == table[addr].present

\* fn handle_page_fault(&self, _pt, _addr) -> bool { false }
handle_page_fault(table, addr) == FALSE

\* handle_page_fault that backs an unmapped page with a frame, as a lazy
\* handler would
fault_allocates(s, addr) ==
    /\ Running(s)
    /\ pc[s] = "idle"
    /\ op' = [op EXCEPT ![s] = [kind |-> "handle_page_fault", addr |-> addr]]
    /\ ret' = [ret EXCEPT ![s] =
                 IF handle_page_fault(pt[s], addr) THEN "true" ELSE "false"]
    /\ \E r \in alloc(free) :
         IF r.res.some /\ ~pt[s][addr].present
         THEN /\ free' = r.pool
              /\ pt' = [pt EXCEPT ![s] = pt_map(pt[s], addr, r.res.val)]
              /\ req' = [req EXCEPT ![s][addr] = DefaultFlags]
         ELSE UNCHANGED <<free, pt, req>>
    /\ trk' = Track("handle_page_fault", s, addr)
    /\ UNCHANGED <<handlers, pc, panic>>

fault(s, addr) ==
    /\ Running(s)
    /\ pc[s] = "idle"
    /\ op' = [op EXCEPT ![s] = [kind |-> "handle_page_fault", addr |-> addr]]
    /\ ret' = [ret EXCEPT ![s] =
                 IF handle_page_fault(pt[s], addr) THEN "true" ELSE "false"]
    /\ trk' = Track("handle_page_fault", s, addr)
    /\ UNCHANGED <<free, pt, handlers, pc, panic, req>>

\* ---------------------------------------------------------------- Next
Next ==
    \/ \E s \in Spaces, t \in Spaces : box_clone(s, t)
    \/ \E s \in Spaces, a \in Pages, attr \in MemoryAttr : map_alloc(s, a, attr)
    \/ \E s \in Spaces : map_pt_map(s)
    \/ \E s \in Spaces : map_attr_apply(s)
    \/ \E s \in Spaces, a \in Pages : unmap_get_entry(s, a)
    \/ \E s \in Spaces : unmap_dealloc(s)
    \/ \E s \in Spaces : unmap_pt_unmap(s)
    \/ \E s \in Spaces, a \in Pages : fault(s, a)

Spec == Init /\ [][Next]_vars

\* ============================================================== claims
Idle == panic = NoPanic /\ \A s \in Spaces : pc[s] = "idle"

Mapped == {x \in Spaces \X Pages : pt[x[1]][x[2]].present}

\* How many holders frame f has: the free pool, the page-table entries that
\* point to it, the map calls that have allocated it and not yet installed it.
Holders(f) ==
    (IF f \in free THEN 1 ELSE 0)
    + Cardinality({x \in Mapped : pt[x[1]][x[2]].target = f})
    + Cardinality({s \in Spaces : pc[s] = "map_pt_map" /\ op[s].target = f})

\* C1: map(a) on an unmapped a with a free frame, followed by unmap(a), leaves
\* the allocator's free set as it was before the map, and a unmapped.
C1_RoundTripConservation ==
    trk.phase = "round_trip" =>
        /\ free = trk.free0
        /\ Cardinality(free) = Cardinality(trk.free0)
        /\ ~pt[trk.s][trk.addr].present

C1_Witness ==
    /\ trk.phase = "round_trip"
    /\ ~trk.empty0
    /\ pc[trk.s] = "idle"

\* C2: a map that finds the allocator empty returns NoFramesAvailable to its
\* caller at once, and the kernel does not panic.
C2_ExhaustionIsReported ==
    \A s \in Spaces :
        (op[s].kind = "map" /\ op[s].target = 0) =>
            /\ panic = NoPanic
            /\ pc[s] = "idle"
            /\ ret[s] = "NoFramesAvailable"

\* C3: an unmap of an address with no entry returns EntryNotFound to its
\* caller, and the kernel does not panic.
C3_MissingEntryIsReported ==
    \A s \in Spaces :
        (op[s].kind = "unmap" /\ op[s].target = 0) =>
            /\ panic = NoPanic
            /\ pc[s] = "idle"
            /\ ret[s] = "EntryNotFound"

\* C4: from one free frame and an empty page table, map(pageA) succeeds and
\* the map(pageB) after it fails with NoFramesAvailable, the system still
\* running with pageA mapped and pageB not, so that unmap(pageA) and a second
\* map(pageB) can follow.
C4_ExhaustionAndRecovery ==
    (trk.phase = "map_b_exhausted" /\ Cardinality(trk.free0) = 1 /\ trk.empty0) =>
        /\ panic = NoPanic
        /\ pc[trk.s] = "idle"
        /\ ret[trk.s] = "NoFramesAvailable"
        /\ \A a \in Pages : pt[trk.s][a].present <=> a = trk.addr

\* C5: a map of an address that is already mapped does not complete as a
\* successful map.
C5_DoubleMapDetected ==
    [][\A s \in Spaces :
          (pc[s] = "map_attr_apply" /\ op[s].was_mapped)
              => ~(pc'[s] = "idle" /\ ret'[s] = "ok" /\ panic' = NoPanic)]_vars

\* C6: in every state, the states inside map and unmap included, no frame has
\* more than one holder among the free pool, the page-table entries of all
\* address spaces and the calls in flight: no frame is in the pool, or handed
\* to another mapping, while an entry still points to it.
C6_UniqueOwnership ==
    \A f \in Frames : Holders(f) <= 1

\* C7: when no call is in flight, distinct mapped pages have distinct frames
\* and the frames out of the pool are as many as the mapped pages.
C7_OneFramePerMappedPage ==
    Idle =>
        /\ \A x, y \in Mapped :
              x # y => pt[x[1]][x[2]].target # pt[y[1]][y[2]].target
        /\ Cardinality(Frames \ free) = Cardinality(Mapped)

\* C8: handle_page_fault returns false, for a mapped and for an unmapped
\* address alike.
C8_FaultNeverResolved ==
    \A s \in Spaces : op[s].kind = "handle_page_fault" => ret[s] = "false"

C8_Witness ==
    \E s, t \in Spaces :
        /\ op[s].kind = "handle_page_fault" /\ pt[s][op[s].addr].present
        /\ op[t].kind = "handle_page_fault" /\ ~pt[t][op[t].addr].present

\* C9: an entry that is present carries the flags of the attr given to the
\* map call that installed it.
C9_PermissionsAsRequested ==
    \A s \in Spaces, a \in Pages :
        pt[s][a].present => pt[s][a].flags = req[s][a]

\* C10: a step that creates a handler by box_clone leaves the free pool,
\* every page table, every call in flight and every existing handler as they
\* were, and the new handler holds the source's allocator handle.
C10_CloneChangesNothingElse ==
    [][handlers' # handlers =>
          /\ free' = free
          /\ pt' = pt
          /\ pc' = pc /\ op' = op
          /\ \A s \in Spaces :
                handlers[s] # NoHandler => handlers'[s] = handlers[s]
          /\ \E s, t \in Spaces :
                /\ handlers[s] # NoHandler /\ handlers[t] = NoHandler
                /\ handlers'[t].kind = "ByFrame"
                /\ handlers'[t].allocator = handlers[s].allocator]_vars

C10_Witness ==
    /\ trk.phase = "cloned"
    /\ ~trk.empty0
    /\ trk.free0 # Frames
    /\ handlers["as2"] # NoHandler

\* The entries other than that of page a in the table of s, and the whole of
\* every other table, are the same before and after the step.
OthersUnchanged(s, a) ==
    \A t \in Spaces, b \in Pages :
        (t # s \/ b # a) => pt'[t][b] = pt[t][b]

\* C11: an unmap(a) returns to the allocator the frame the entry of a points
\* to and no other frame, and removes the entry of a and no other: the
\* entries and frames of the other mapped pages are unchanged by each of its
\* steps.
C11_UnmapReleasesOwnFrame ==
    [][\A s \in Spaces :
          /\ (pc[s] = "idle" /\ pc'[s] = "unmap_dealloc") =>
                /\ free' = free
                /\ pt' = pt
          /\ (pc[s] = "unmap_dealloc" /\ pc'[s] # "unmap_dealloc") =>
                /\ free' = free \cup {pt[s][op[s].addr].target}
                /\ pt' = pt
          /\ (pc[s] = "unmap_pt_unmap" /\ pc'[s] # "unmap_pt_unmap") =>
                /\ free' = free
                /\ ~pt'[s][op[s].addr].present
                /\ OthersUnchanged(s, op[s].addr)]_vars

C11_Witness ==
    \E s \in Spaces :
        /\ pc[s] = "unmap_pt_unmap"
        /\ \A a \in Pages : pt[s][a].present
        /\ \E b \in Pages : pt[s][b].target # op[s].target
        /\ op[s].target \in free

\* C12: unmap looks the frame up in the entry of a, then returns it to the
\* allocator with the entry still in place, and removes the entry only in
\* the step after: between the two the frame is in the pool, or already
\* handed out again, while the entry of a is present and points to it.
C12_UnmapOrder ==
    [][\A s \in Spaces :
          /\ (pc[s] = "idle" /\ pc'[s] = "unmap_dealloc") =>
                /\ pt[s][op'[s].addr].present
                /\ op'[s].target = pt[s][op'[s].addr].target
          /\ (pc[s] = "unmap_dealloc" /\ pc'[s] # "unmap_dealloc") =>
                /\ pc'[s] = "unmap_pt_unmap"
                /\ op[s].target \in free'
                /\ pt'[s][op[s].addr].present
                /\ pt'[s][op[s].addr].target = op[s].target
          /\ \A a \in Pages :
                (pt[s][a].present /\ ~pt'[s][a].present) =>
                    /\ pc[s] = "unmap_pt_unmap"
                    /\ a = op[s].addr]_vars

C12_Witness ==
    \E s \in Spaces :
        /\ pc[s] = "unmap_pt_unmap"
        /\ op[s].target \in free
        /\ pt[s][op[s].addr].present
        /\ pt[s][op[s].addr].target = op[s].target

\* C13: a map that fails because the allocator is empty leaves every page
\* table and the allocator's pool as they were before the call.
C13_FailedMapChangesNothing ==
    [][(panic = NoPanic /\ panic' = "failed to allocate frame") =>
          /\ free = {}
          /\ free' = free
          /\ pt' = pt
          /\ req' = req
          /\ \A f \in Frames : Holders(f)' = Holders(f)]_vars

C13_Witness ==
    \E s \in Spaces :
        /\ panic = "failed to allocate frame"
        /\ pc[s] = "panicked"
        /\ op[s].kind = "map"
        /\ ~pt[s][op[s].addr].present
        /\ ~IsEmpty(pt[s])
        /\ free = {}

\* C14: an unmap that fails because its address has no entry returns no
\* frame to the allocator and removes no entry.
C14_FailedUnmapChangesNothing ==
    [][(panic = NoPanic /\ panic' = "fail to get entry") =>
          /\ free' = free
          /\ pt' = pt
          /\ req' = req]_vars

C14_Witness ==
    \E s \in Spaces :
        /\ panic = "fail to get entry"
        /\ pc[s] = "panicked"
        /\ op[s].kind = "unmap"
        /\ ~pt[s][op[s].addr].present
        /\ ~IsEmpty(pt[s])
        /\ free # Frames

\* C15: a step that is a handle_page_fault call (no map or unmap statement
\* advances and no handler is created) leaves every page table, with its
\* frames and flags, and the allocator's pool unchanged.
C15_FaultChangesNothing ==
    [][(pc' = pc /\ handlers' = handlers) =>
          /\ free' = free
          /\ Cardinality(free') = Cardinality(free)
          /\ pt' = pt
          /\ req' = req
          /\ panic' = panic]_vars

C15_Witness ==
    \E s, t \in Spaces :
        /\ op[s].kind = "handle_page_fault"
        /\ ret[s] = "false"
        /\ ~pt[s][op[s].addr].present
        /\ ~IsEmpty(pt[s])
        /\ free # {}
        /\ pc[t] \notin {"idle", "panicked"}

====
